---- MODULE Spec2Model ----
(***************************************************************************)
(* Model of hw_bot_cli_v3.py: Field / Name / Phone value wrappers, Record  *)
(* (a name and an ordered list of Phone objects) and AddressBook (a        *)
(* UserDict from name string to Record object).                            *)
(*                                                                         *)
(* Strings that the code inspects character by character (phone values)   *)
(* are sequences of Unicode code points.  Names are never inspected, so    *)
(* they are TLA+ strings.  Record objects live in a heap indexed by        *)
(* object identity, because the address book stores references.           *)
(***************************************************************************)
EXTENDS Integers, Sequences, FiniteSets, TLC

VARIABLES records, data, last

vars == <<records, data, last>>

---------------------------------------------------------------------------
(* Bounds *)

\* Longest phone list of the record in SpecRecord.
MaxPhones == 3

\* Most phones the records of Spec hold together.
MaxBookPhones == 1

\* Number of Record objects that may be constructed.
MaxRecords == 2

\* Longest string fed to the Phone constructor in SpecPhone.
MaxLen == 11

---------------------------------------------------------------------------
(* Characters and strings *)

\* The {10} of the pattern r"^\d{10}$".
PhoneLen == 10

\* Code point of "\n", the only character after which "$" still matches.
Newline == 10

\* Code points used to build inputs: "0", "5", "a", " ", "\n" and
\* ARABIC-INDIC DIGIT ONE (U+0661).
Alphabet == {48, 53, 97, 32, Newline, 1633}

\* \d in a str pattern without re.ASCII: any Unicode decimal digit
\* (category Nd).  The ranges are the ASCII, Arabic-Indic, Extended
\* Arabic-Indic, Devanagari and Fullwidth digits.
IsDigit(c) ==
    \/ c \in 48..57
    \/ c \in 1632..1641
    \/ c \in 1776..1785
    \/ c \in 2406..2415
    \/ c \in 65296..65305

\* re.match(r"^\d{10}$", value) is not None.  "^" is the start of the
\* string; "$" matches at the end of the string and also just before a
\* newline that is the last character.
ReMatch(value) ==
    /\ Len(value) >= PhoneLen
    /\ \A i \in 1..PhoneLen : IsDigit(value[i])
    /\ \/ Len(value) = PhoneLen
       \/ /\ Len(value) = PhoneLen + 1
          /\ value[PhoneLen + 1] = Newline

\* Phone.__init__ raises ValueError exactly when the pattern does not match.
PhoneRaises(value) == ~ReMatch(value)

\* Field.__init__: the value is stored as given.
FieldValue(value) == value

---------------------------------------------------------------------------
(* Inputs *)

\* "1234567890"
PhoneA == <<49, 50, 51, 52, 53, 54, 55, 56, 57, 48>>

\* "5555555555"
PhoneB == <<53, 53, 53, 53, 53, 53, 53, 53, 53, 53>>

\* "1234567890\n"
PhoneNL == PhoneA \o <<Newline>>

\* "12345"
PhoneShort == <<49, 50, 51, 52, 53>>

\* Arguments given to the Record methods in SpecRecord.
Samples == {PhoneA, PhoneB, PhoneNL, PhoneShort}

\* Arguments given to the Record methods in Spec.
BookSamples == {PhoneA, PhoneNL, PhoneShort}

\* Record names / address book keys.
Names == {"John", "Jane"}

\* Arguments of the Phone constructor in SpecPhone: every string of up to
\* MaxLen characters that repeats one character of Alphabet, with at most
\* one position holding another one.
PhoneInputs ==
    { [i \in 1..n |-> IF i = p THEN d ELSE c] :
        n \in 0..MaxLen, p \in 1..MaxLen, c \in Alphabet, d \in Alphabet }

---------------------------------------------------------------------------
(* Return values *)

\* A returned str, as the parts of its f-string.
StrRet(parts) == [kind |-> "str", parts |-> parts]

\* A returned None.
NoneRet == [kind |-> "None"]

\* A returned Phone object: the element at position index of the list.
PhoneRet(index, value) == [kind |-> "Phone", index |-> index, value |-> value]

\* A returned Record object.
RecordRet(r) == [kind |-> "Record", rid |-> r]

\* ValueError raised by Phone.__init__.
ValueErrorRaised ==
    [kind |-> "ValueError",
     parts |-> <<"Phone number must contain exactly 10 digits.">>]

\* Phone(value): the constructed object's value, or the raised error.
PhoneInitOutcome(value) ==
    IF PhoneRaises(value)
    THEN ValueErrorRaised
    ELSE PhoneRet(0, FieldValue(value))

---------------------------------------------------------------------------
(* Record methods, as functions of the phone list *)

\* Index of the first element whose value equals phone, 0 when there is
\* none: the loop "for p in self.phones: if p.value == phone".
FirstIndex(phones, phone) ==
    IF \E i \in 1..Len(phones) : phones[i] = phone
    THEN CHOOSE i \in 1..Len(phones) :
            /\ phones[i] = phone
            /\ \A j \in 1..(i - 1) : phones[j] # phone
    ELSE 0

\* self.phones.remove(p) for the object p at position i.  Phone defines no
\* __eq__, so list.remove compares by identity, and the elements are
\* distinct objects (each built at line 66 or 99): position i goes.
ListRemove(phones, i) ==
    SubSeq(phones, 1, i - 1) \o SubSeq(phones, i + 1, Len(phones))

\* self.phones[i] = value
ListSetItem(phones, i, value) == [phones EXCEPT ![i] = value]

\* Mutant: a membership test skips a value that is already stored.
AddPhoneOutcomeNoDup(phones, name, phone) ==
    IF PhoneRaises(phone)
    THEN [phones |-> phones, ret |-> ValueErrorRaised]
    ELSE [phones |-> IF FirstIndex(phones, phone) = 0
                     THEN Append(phones, FieldValue(phone))
                     ELSE phones,
          ret |-> StrRet(<<"Phone ", phone, " added to ", name, ".">>)]

\* Record.add_phone
AddPhoneOutcome(phones, name, phone) ==
    IF PhoneRaises(phone)
    THEN [phones |-> phones, ret |-> ValueErrorRaised]
    ELSE [phones |-> Append(phones, FieldValue(phone)),
          ret |-> StrRet(<<"Phone ", phone, " added to ", name, ".">>)]

\* Mutant: list.remove's own ValueError escapes when nothing matches.
RemovePhoneOutcomeRaising(phones, name, phone) ==
    LET i == FirstIndex(phones, phone) IN
    IF i # 0
    THEN [phones |-> ListRemove(phones, i),
          ret |-> StrRet(<<"Phone ", phone, " removed from ", name, ".">>)]
    ELSE [phones |-> phones, ret |-> ValueErrorRaised]

\* Mutant: every element equal to phone is filtered out.
RemovePhoneOutcomeAll(phones, name, phone) ==
    LET i == FirstIndex(phones, phone) IN
    IF i # 0
    THEN [phones |-> SelectSeq(phones, LAMBDA v : v # phone),
          ret |-> StrRet(<<"Phone ", phone, " removed from ", name, ".">>)]
    ELSE [phones |-> phones, ret |-> StrRet(<<"Phone number not found.">>)]

\* Record.remove_phone
RemovePhoneOutcome(phones, name, phone) ==
    LET i == FirstIndex(phones, phone) IN
    IF i # 0
    THEN [phones |-> ListRemove(phones, i),
          ret |-> StrRet(<<"Phone ", phone, " removed from ", name, ".">>)]
    ELSE [phones |-> phones, ret |-> StrRet(<<"Phone number not found.">>)]

\* Mutant: the new number is validated before the search for the old one.
EditPhoneOutcomeEager(phones, name, old_phone, new_phone) ==
    LET i == FirstIndex(phones, old_phone) IN
    IF PhoneRaises(new_phone)
    THEN [phones |-> phones, ret |-> ValueErrorRaised]
    ELSE IF i # 0
    THEN [phones |-> ListSetItem(phones, i, FieldValue(new_phone)),
          ret |-> StrRet(<<"Phone ", old_phone, " updated to ", new_phone,
                           " for ", name, ".">>)]
    ELSE [phones |-> phones, ret |-> StrRet(<<"Old phone number not found.">>)]

\* Mutant: the loop does not return after the first replacement.
EditPhoneOutcomeAll(phones, name, old_phone, new_phone) ==
    LET i == FirstIndex(phones, old_phone) IN
    IF i = 0
    THEN [phones |-> phones, ret |-> StrRet(<<"Old phone number not found.">>)]
    ELSE IF PhoneRaises(new_phone)
    THEN [phones |-> phones, ret |-> ValueErrorRaised]
    ELSE [phones |-> [k \in 1..Len(phones) |->
                         IF phones[k] = old_phone
                         THEN FieldValue(new_phone)
                         ELSE phones[k]],
          ret |-> StrRet(<<"Phone ", old_phone, " updated to ", new_phone,
                           " for ", name, ".">>)]

\* Record.edit_phone
EditPhoneOutcome(phones, name, old_phone, new_phone) ==
    LET i == FirstIndex(phones, old_phone) IN
    IF i = 0
    THEN [phones |-> phones, ret |-> StrRet(<<"Old phone number not found.">>)]
    ELSE IF PhoneRaises(new_phone)
    THEN [phones |-> phones, ret |-> ValueErrorRaised]
    ELSE [phones |-> ListSetItem(phones, i, FieldValue(new_phone)),
          ret |-> StrRet(<<"Phone ", old_phone, " updated to ", new_phone,
                           " for ", name, ".">>)]

\* Record.find_phone
FindPhoneOutcome(phones, phone) ==
    LET i == FirstIndex(phones, phone) IN
    IF i # 0 THEN PhoneRet(i, phones[i]) ELSE NoneRet

---------------------------------------------------------------------------
(* AddressBook methods, as functions of the dict.  The dict self.data is a *)
(* function on Names whose value 0 stands for a key that is absent.        *)

\* Object identities of the Record objects.
RecIds == 1..MaxRecords

\* The keys of the dict.
Keys(d) == {n \in Names : d[n] # 0}

\* Mutant: setdefault keeps the record already stored under the name.
AddRecordOutcomeKeep(d, name, r) ==
    [data |-> IF d[name] = 0 THEN [d EXCEPT ![name] = r] ELSE d,
     ret |-> StrRet(<<"Contact ", name, " added to the address book.">>)]

\* AddressBook.add_record
AddRecordOutcome(d, name, r) ==
    [data |-> [d EXCEPT ![name] = r],
     ret |-> StrRet(<<"Contact ", name, " added to the address book.">>)]

\* AddressBook.find: self.data.get(name)
FindOutcome(d, name) ==
    IF d[name] # 0 THEN RecordRet(d[name]) ELSE NoneRet

\* Mutant: pop(name, None) without the membership test.
DeleteOutcomeNoTest(d, name) ==
    [data |-> [d EXCEPT ![name] = 0],
     ret |-> StrRet(<<"Contact ", name, " has been deleted.">>)]

\* AddressBook.delete
DeleteOutcome(d, name) ==
    IF d[name] # 0
    THEN [data |-> [d EXCEPT ![name] = 0],
          ret |-> StrRet(<<"Contact ", name, " has been deleted.">>)]
    ELSE [data |-> d, ret |-> StrRet(<<"Contact not found.">>)]

---------------------------------------------------------------------------
(* State *)

\* A Record object that has not been constructed.
NoRecord == [alloc |-> FALSE, name |-> "", phones |-> <<>>]

\* The call that produced the current state: the method, the Record object
\* or key it was called on, its arguments, what it returned or raised, and
\* the state it was called in.
Call(op, r, name, a1, a2, ret) ==
    [op |-> op, rid |-> r, name |-> name, a1 |-> a1, a2 |-> a2, ret |-> ret,
     pre |-> [records |-> records, data |-> data]]

\* No call yet; a1 is the argument SpecPhone is about to construct from.
NoCall(a1) ==
    [op |-> "init", rid |-> 0, name |-> "", a1 |-> a1, a2 |-> <<>>,
     ret |-> NoneRet,
     pre |-> [records |-> [r \in RecIds |-> NoRecord],
              data |-> [n \in Names |-> 0]]]

\* AddressBook() and no Record yet.
Init ==
    /\ records = [r \in RecIds |-> NoRecord]
    /\ data = [n \in Names |-> 0]
    /\ last = NoCall(<<>>)

\* Record.__init__: a new object with the name and no phones.
RecordInit(r, name) ==
    /\ ~records[r].alloc
    /\ \A q \in 1..(r - 1) : records[q].alloc
    /\ records' = [records EXCEPT
                     ![r] = [alloc |-> TRUE, name |-> name, phones |-> <<>>]]
    /\ last' = Call("Record", r, name, <<>>, <<>>, RecordRet(r))
    /\ UNCHANGED data

\* Number of phones held by the records 1..n together.
RECURSIVE TotalPhones(_, _)
TotalPhones(recs, n) ==
    IF n = 0 THEN 0 ELSE Len(recs[n].phones) + TotalPhones(recs, n - 1)

\* record.add_phone(phone), while the records hold at most cap phones
AddPhone(r, phone, cap) ==
    LET out == AddPhoneOutcome(records[r].phones, records[r].name, phone) IN
    /\ records[r].alloc
    /\ records' = [records EXCEPT ![r].phones = out.phones]
    /\ TotalPhones(records', MaxRecords) <= cap
    /\ last' = Call("add_phone", r, records[r].name, phone, <<>>, out.ret)
    /\ UNCHANGED data

\* record.remove_phone(phone)
RemovePhone(r, phone) ==
    LET out == RemovePhoneOutcome(records[r].phones, records[r].name, phone) IN
    /\ records[r].alloc
    /\ records' = [records EXCEPT ![r].phones = out.phones]
    /\ last' = Call("remove_phone", r, records[r].name, phone, <<>>, out.ret)
    /\ UNCHANGED data

\* record.edit_phone(old_phone, new_phone)
EditPhone(r, old_phone, new_phone) ==
    LET out == EditPhoneOutcome(records[r].phones, records[r].name,
                                old_phone, new_phone) IN
    /\ records[r].alloc
    /\ records' = [records EXCEPT ![r].phones = out.phones]
    /\ last' = Call("edit_phone", r, records[r].name, old_phone, new_phone,
                    out.ret)
    /\ UNCHANGED data

\* record.find_phone(phone)
FindPhone(r, phone) ==
    /\ records[r].alloc
    /\ last' = Call("find_phone", r, records[r].name, phone, <<>>,
                    FindPhoneOutcome(records[r].phones, phone))
    /\ UNCHANGED <<records, data>>

\* book.add_record(record)
AddRecord(r) ==
    LET out == AddRecordOutcome(data, records[r].name, r) IN
    /\ records[r].alloc
    /\ data' = out.data
    /\ last' = Call("add_record", r, records[r].name, <<>>, <<>>, out.ret)
    /\ UNCHANGED records

\* book.find(name)
Find(name) ==
    /\ last' = Call("find", 0, name, <<>>, <<>>, FindOutcome(data, name))
    /\ UNCHANGED <<records, data>>

\* book.delete(name)
Delete(name) ==
    LET out == DeleteOutcome(data, name) IN
    /\ data' = out.data
    /\ last' = Call("delete", 0, name, <<>>, <<>>, out.ret)
    /\ UNCHANGED records

\* Phone(value), on the argument chosen initially.
PhoneInit ==
    /\ last.op = "init"
    /\ last' = Call("Phone", 0, "", last.a1, <<>>, PhoneInitOutcome(last.a1))
    /\ UNCHANGED <<records, data>>

---------------------------------------------------------------------------
(* Specifications *)

\* The whole program: any calls on any Record and on the AddressBook.
Next ==
    \/ \E r \in RecIds, name \in Names : RecordInit(r, name)
    \/ \E r \in RecIds, phone \in BookSamples :
          AddPhone(r, phone, MaxBookPhones)
    \/ \E r \in RecIds, phone \in BookSamples : RemovePhone(r, phone)
    \/ \E r \in RecIds, old_phone \in BookSamples, new_phone \in BookSamples :
          EditPhone(r, old_phone, new_phone)
    \/ \E r \in RecIds, phone \in BookSamples : FindPhone(r, phone)
    \/ \E r \in RecIds : AddRecord(r)
    \/ \E name \in Names : Find(name)
    \/ \E name \in Names : Delete(name)

Spec == Init /\ [][Next]_vars

\* One Record and the calls on it.
InitRecord ==
    /\ \E name \in Names :
          records = [r \in RecIds |->
                        IF r = 1
                        THEN [alloc |-> TRUE, name |-> name, phones |-> <<>>]
                        ELSE NoRecord]
    /\ data = [n \in Names |-> 0]
    /\ last = NoCall(<<>>)

NextRecord ==
    \/ \E phone \in Samples : AddPhone(1, phone, MaxPhones)
    \/ \E phone \in Samples : RemovePhone(1, phone)
    \/ \E old_phone \in Samples, new_phone \in Samples :
          EditPhone(1, old_phone, new_phone)
    \/ \E phone \in Samples : FindPhone(1, phone)

SpecRecord == InitRecord /\ [][NextRecord]_vars

\* The Phone constructor on every input.
InitPhone ==
    /\ records = [r \in RecIds |-> NoRecord]
    /\ data = [n \in Names |-> 0]
    /\ last \in {NoCall(value) : value \in PhoneInputs}

NextPhone == PhoneInit

SpecPhone == InitPhone /\ [][NextPhone]_vars

---------------------------------------------------------------------------
(* Vocabulary of the properties *)

\* The ASCII digits "0".."9".
IsAsciiDigit(c) == c \in 48..57

\* A valid 10-digit number, as the claims and the documentation of Phone
\* mean it: exactly ten characters, each one of "0".."9".
TenAsciiDigits(s) ==
    /\ Len(s) = PhoneLen
    /\ \A i \in 1..Len(s) : IsAsciiDigit(s[i])

\* The phone list of the record the last call was made on, before and
\* after the call.
PrePhones == last.pre.records[last.rid].phones

PostPhones == records[last.rid].phones

\* Some stored value equals v.
Contains(phones, v) == \E i \in 1..Len(phones) : phones[i] = v

\* The positions holding v.
Positions(phones, v) == {i \in 1..Len(phones) : phones[i] = v}

\* The lowest position holding v (there is one).
Lowest(phones, v) ==
    CHOOSE i \in Positions(phones, v) : \A j \in Positions(phones, v) : i <= j

\* Every stored value of every record is ten ASCII digits.
AllStoredValid ==
    \A r \in RecIds :
        \A i \in 1..Len(records[r].phones) :
            TenAsciiDigits(records[r].phones[i])

---------------------------------------------------------------------------
(* Phone *)

\* C1: Phone(s) raises the validation error for every s that is not
\* exactly ten ASCII digits, and for every s of exactly ten ASCII digits
\* it succeeds and stores s unchanged.
C1_PhoneAcceptsExactlyTenDigits ==
    last.op = "Phone" =>
        IF TenAsciiDigits(last.a1)
        THEN last.ret.kind = "Phone" /\ last.ret.value = last.a1
        ELSE last.ret.kind = "ValueError"

---------------------------------------------------------------------------
(* Record.edit_phone *)

\* What C2 says of the list and the return value, apart from find_phone(old).
C2_Replaced ==
    LET i == Lowest(PrePhones, last.a1) IN
    /\ Len(PostPhones) = Len(PrePhones)
    /\ PostPhones[i] = last.a2
    /\ \A k \in 1..Len(PrePhones) : k # i => PostPhones[k] = PrePhones[k]
    /\ last.ret = StrRet(<<"Phone ", last.a1, " updated to ", last.a2,
                           " for ", last.name, ".">>)
    /\ FindPhoneOutcome(PostPhones, last.a2).kind = "Phone"

\* The case of C2 and C3: edit_phone(old, new) with old stored.
C2_Case ==
    /\ last.op = "edit_phone"
    /\ Contains(PrePhones, last.a1)

\* C2 as stated: when old is stored and new is a valid 10-digit number,
\* edit_phone(old, new) replaces the first entry equal to old in place,
\* returns the confirmation, and afterwards find_phone(old) returns None
\* and find_phone(new) returns a match.
C2_Original ==
    (C2_Case /\ TenAsciiDigits(last.a2)) =>
        /\ C2_Replaced
        /\ FindPhoneOutcome(PostPhones, last.a1) = NoneRet

\* C2, amended: when old is stored and new is a valid 10-digit number,
\* edit_phone(old, new) replaces the first entry equal to old in place,
\* returns the confirmation, and afterwards find_phone(new) returns a
\* match; find_phone(old) returns None exactly when new differs from old
\* and old was stored only once.
C2_EditReplacesFirst ==
    (C2_Case /\ TenAsciiDigits(last.a2)) =>
        /\ C2_Replaced
        /\ (FindPhoneOutcome(PostPhones, last.a1).kind = "None") <=>
              (last.a1 # last.a2 /\ Cardinality(Positions(PrePhones, last.a1)) = 1)

\* C2 witness: a valid edit of a value stored once, after which it is gone,
\* in a list holding another value too.
C2_Witness ==
    /\ C2_Case
    /\ TenAsciiDigits(last.a2)
    /\ last.a1 # last.a2
    /\ Len(PrePhones) >= 2
    /\ Lowest(PrePhones, last.a1) >= 2
    /\ Cardinality(Positions(PrePhones, last.a1)) = 1
    /\ ~Contains(PostPhones, last.a1)

\* C3: when old is stored and new is not a valid 10-digit number,
\* edit_phone(old, new) raises the validation error and the phone list is
\* exactly what it was.
C3_InvalidNewRaises ==
    (C2_Case /\ ~TenAsciiDigits(last.a2)) =>
        /\ last.ret.kind = "ValueError"
        /\ PostPhones = PrePhones

\* C4: when no entry equals old, edit_phone(old, new) returns the not-found
\* outcome for every new, raises nothing, and changes nothing.
C4_EditAbsentNotFound ==
    (last.op = "edit_phone" /\ ~Contains(PrePhones, last.a1)) =>
        /\ last.ret = StrRet(<<"Old phone number not found.">>)
        /\ last.ret.kind # "ValueError"
        /\ PostPhones = PrePhones
        /\ records = last.pre.records
        /\ data = last.pre.data

\* C4 witness: old is absent from a non-empty list and new is one the
\* constructor would have rejected.
C4_Witness ==
    /\ last.op = "edit_phone"
    /\ ~Contains(PrePhones, last.a1)
    /\ Len(PrePhones) >= 1
    /\ PhoneRaises(last.a2)
    /\ last.ret.kind = "str"

---------------------------------------------------------------------------
(* Stored values *)

\* C5: after any sequence of calls every stored phone value is ten digits,
\* and an add_phone that failed left the phone list unchanged.
C5_StoredPhonesValid ==
    /\ AllStoredValid
    /\ (last.op = "add_phone" /\ last.ret.kind = "ValueError") =>
          records = last.pre.records

---------------------------------------------------------------------------
(* AddressBook.add_record *)

\* C6: add_record(r) for a name that is already a key overwrites the entry:
\* the number of keys is unchanged, find(name) returns r with r's own phone
\* list, the entries under other names are unchanged, and no record changed.
C6_AddRecordOverwrites ==
    (last.op = "add_record" /\ last.name \in Keys(last.pre.data)) =>
        /\ Cardinality(Keys(data)) = Cardinality(Keys(last.pre.data))
        /\ FindOutcome(data, last.name) = RecordRet(last.rid)
        /\ records[data[last.name]].phones
              = last.pre.records[last.rid].phones
        /\ \A n \in Names \ {last.name} : data[n] = last.pre.data[n]
        /\ records = last.pre.records
        /\ last.ret = StrRet(<<"Contact ", last.name,
                               " added to the address book.">>)

\* C6 witness: the key held another Record object, with a phone that the
\* new record does not hold.
C6_Witness ==
    /\ last.op = "add_record"
    /\ last.name \in Keys(last.pre.data)
    /\ last.pre.data[last.name] # last.rid
    /\ \E i \in 1..Len(last.pre.records[last.pre.data[last.name]].phones) :
          ~Contains(records[last.rid].phones,
                    last.pre.records[last.pre.data[last.name]].phones[i])

---------------------------------------------------------------------------
(* Record.remove_phone *)

\* C7: remove_phone(raw) with raw equal to no stored value returns the
\* not-found outcome, raises nothing, and leaves the phone list unchanged.
C7_RemoveAbsentNotFound ==
    (last.op = "remove_phone" /\ ~Contains(PrePhones, last.a1)) =>
        /\ last.ret = StrRet(<<"Phone number not found.">>)
        /\ PostPhones = PrePhones
        /\ records = last.pre.records

\* C7 witness: raw is absent from a list of at least two entries.
C7_Witness ==
    /\ last.op = "remove_phone"
    /\ ~Contains(PrePhones, last.a1)
    /\ Len(PrePhones) >= 2
    /\ last.ret.kind = "str"

\* C10: remove_phone(raw) with raw stored removes exactly the first entry
\* equal to raw: the length drops by one, the other entries keep their
\* order, later duplicates stay, and the confirmation is returned.
C10_RemoveFirstOnly ==
    (last.op = "remove_phone" /\ Contains(PrePhones, last.a1)) =>
        LET i == Lowest(PrePhones, last.a1) IN
        /\ Len(PostPhones) = Len(PrePhones) - 1
        /\ \A k \in 1..Len(PostPhones) :
              PostPhones[k] = IF k < i THEN PrePhones[k] ELSE PrePhones[k + 1]
        /\ Cardinality(Positions(PostPhones, last.a1))
              = Cardinality(Positions(PrePhones, last.a1)) - 1
        /\ last.ret = StrRet(<<"Phone ", last.a1, " removed from ",
                               last.name, ".">>)

\* C10 witness: raw was stored twice, first at a position after the head,
\* and is still stored.
C10_Witness ==
    /\ last.op = "remove_phone"
    /\ Cardinality(Positions(PrePhones, last.a1)) = 2
    /\ Lowest(PrePhones, last.a1) >= 2
    /\ Contains(PostPhones, last.a1)

---------------------------------------------------------------------------
(* AddressBook.delete *)

\* C8: delete(name) for a name that is not a key returns the not-found
\* outcome and leaves the directory unchanged; for a key it removes exactly
\* that entry, returns a confirmation that differs from the not-found
\* outcome, and find(name) then returns None.
C8_Delete ==
    last.op = "delete" =>
        IF last.name \notin Keys(last.pre.data)
        THEN /\ last.ret = StrRet(<<"Contact not found.">>)
             /\ data = last.pre.data
             /\ Keys(data) = Keys(last.pre.data)
             /\ records = last.pre.records
        ELSE /\ Keys(data) = Keys(last.pre.data) \ {last.name}
             /\ \A n \in Keys(data) : data[n] = last.pre.data[n]
             /\ records = last.pre.records
             /\ last.ret = StrRet(<<"Contact ", last.name,
                                    " has been deleted.">>)
             /\ last.ret # StrRet(<<"Contact not found.">>)
             /\ FindOutcome(data, last.name) = NoneRet

\* C8 witness: delete of an absent name from a directory that holds a
\* record with a phone.
C8_Witness ==
    /\ last.op = "delete"
    /\ last.name \notin Keys(last.pre.data)
    /\ \E n \in Keys(data) : Len(records[data[n]].phones) >= 1
    /\ last.ret.kind = "str"

---------------------------------------------------------------------------
(* Record.add_phone *)

\* C9: add_phone(v) for a valid 10-digit v appends v as the last entry,
\* also when v is already stored, leaves the earlier entries unchanged, and
\* find_phone(v) then returns a match whose value is v.
C9_AddThenFind ==
    (last.op = "add_phone" /\ TenAsciiDigits(last.a1)) =>
        /\ Len(PostPhones) = Len(PrePhones) + 1
        /\ PostPhones[Len(PostPhones)] = last.a1
        /\ \A k \in 1..Len(PrePhones) : PostPhones[k] = PrePhones[k]
        /\ FindPhoneOutcome(PostPhones, last.a1).kind = "Phone"
        /\ FindPhoneOutcome(PostPhones, last.a1).value = last.a1
        /\ last.ret = StrRet(<<"Phone ", last.a1, " added to ",
                               last.name, ".">>)

\* C9 witness: v was already stored when it was added.
C9_Witness ==
    /\ last.op = "add_phone"
    /\ TenAsciiDigits(last.a1)
    /\ Contains(PrePhones, last.a1)
    /\ Len(PostPhones) = Len(PrePhones) + 1

====
